---- MODULE Spec2Model ----
(***************************************************************************)
(* FinBuddy (src/finBuddy.py): the news aggregation of                     *)
(* StockAnalyzer.get_company_news over its three sources, and the report   *)
(* generation of StockAnalyzer.generate_report with the context assembly   *)
(* of StockAnalyzer._gather_company_context.                               *)
(*                                                                         *)
(* Strings that the code trims, case-folds or compares are sequences of    *)
(* one-character strings, so that str.strip and str.lower are computed.    *)
(***************************************************************************)
EXTENDS Integers, Sequences, FiniteSets, TLC

(***************************************************************************)
(* Bounds of the model.                                                    *)
(***************************************************************************)
\* Raw records, over the three responses of one aggregation, that repeat an
\* earlier headline or carry no valid title.
MaxNoise == 1
\* How many of the headline letters also occur capitalised.
UpperClasses == 1
\* Raw records one response holds that its source keeps.
MaxResponse == 3
\* Close prices of the price history run from 1 to MaxPrice.
MaxPrice == 2
\* Page runs of main in one session.
MaxRuns == 5

(***************************************************************************)
(* Program constants.                                                      *)
(***************************************************************************)
\* finBuddy.py:247,252  "Limit to 5 total articles"
MaxNews == 5
\* finBuddy.py:79,103  "Limit to 5 articles per source"
ApiSourceCap == 5
\* finBuddy.py:147,180,213  "Limit to 3 articles"
WebSourceCap == 3
\* finBuddy.py:323  rolling(50)
ShortWindow == 50
\* finBuddy.py:324  rolling(200)
LongWindow == 200
\* finBuddy.py:315  news[:3]
MaxHighlights == 3

(***************************************************************************)
(* Text: str.strip, str.lower, and the literals of the code.               *)
(***************************************************************************)
UpperChars == <<"A", "B", "C", "D", "E", "F", "N">>
LowerChars == <<"a", "b", "c", "d", "e", "f", "n">>

\* the headlines of the model: one letter each
Letters == <<"a", "b", "c", "d", "e", "f">>

\* str.lower on one character
LowerTable ==
    [c \in {UpperChars[i] : i \in DOMAIN UpperChars} |->
        LowerChars[CHOOSE i \in DOMAIN UpperChars : UpperChars[i] = c]]

LowerChar(c) == IF c \in DOMAIN LowerTable THEN LowerTable[c] ELSE c

\* str.lower
Lower(s) == [i \in DOMAIN s |-> LowerChar(s[i])]

IsSpace(c) == c \in {" ", "\n", "\t"}

RECURSIVE LStrip(_)
LStrip(s) ==
    IF s = <<>> THEN <<>>
    ELSE IF IsSpace(Head(s)) THEN LStrip(Tail(s))
    ELSE s

RECURSIVE RStrip(_)
RStrip(s) ==
    IF s = <<>> THEN <<>>
    ELSE IF IsSpace(s[Len(s)]) THEN RStrip(SubSeq(s, 1, Len(s) - 1))
    ELSE s

\* str.strip
Strip(s) == RStrip(LStrip(s))

\* the literal 'No title available'
NoTitle ==
    <<"N", "o", " ", "t", "i", "t", "l", "e", " ",
      "a", "v", "a", "i", "l", "a", "b", "l", "e">>

\* list[:n]
Take(s, n) == SubSeq(s, 1, IF Len(s) < n THEN Len(s) ELSE n)

(***************************************************************************)
(* State.                                                                  *)
(***************************************************************************)
VARIABLES
    symbol,        \* the ticker passed to get_company_news / generate_report
    pc,            \* position of get_company_news: "call", "parse", "iter", "done"
    src,           \* index into self.news_sources of the for loop (line 235)
    parsed,        \* news_items local to the running source function
    pos,           \* index of the item the inner for loop (line 237) is at
    news_items,    \* get_company_news: news_items
    seen_titles,   \* get_company_news: seen_titles
    ret,           \* value returned by get_company_news
    results,       \* history: the list each source call returned
    status,        \* history: how each source call ended
    examined,      \* history: items of each source the inner loop looked at
    budget,        \* repeating or invalid records the responses may still hold
    used           \* headline letters that have appeared on the wire so far

newsVars == <<symbol, pc, src, parsed, pos, news_items, seen_titles,
              ret, results, status, examined, budget, used>>

VARIABLES
    rpc,           \* position of generate_report / _gather_company_context
    client,        \* the module's OpenAI client exists (line 18)
    info_state,    \* ticker.info: "unread", "raised" (info is unbound) or "bound"
    info,          \* the info dict, once bound: field -> "absent" or "value"
    context,       \* _gather_company_context: context, as a sequence of lines
    news,          \* _gather_company_context: news
    hist_state,    \* history(): "unread", "raised", "empty" or "ok"
    hist,          \* the close prices: n1 days at p1, then n2 days at p2
    llm_calls,     \* calls of client.chat.completions.create so far
    llm_result,    \* how the call ended: "none", "ok" or "failed"
    report,        \* value returned by generate_report
    escaped        \* an exception left generate_report

reportVars == <<rpc, client, info_state, info, context, news, hist_state, hist,
                llm_calls, llm_result, report, escaped>>

VARIABLES
    mpc,             \* position of main: "idle" (no run), "sidebar", "analysis", "render"
    run,             \* history: page runs of main started in this session
    sector,          \* widget sector_select
    search_term,     \* widget company_search
    button,          \* the Analyze button reads True in this run
    run_analysis,    \* st.session_state.get('run_analysis', False)
    selected_symbol, \* st.session_state.selected_symbol, "none" while unset
    selected_name,   \* st.session_state.selected_name, <<>> while unset
    result,          \* st.session_state.result, NoResult while unset
    computed_in,     \* history: the run that stored result
    rendered,        \* history: the header the latest run rendered, if any
    stale_seen       \* history: a run ended with a result of another company stored

mainVars == <<mpc, run, sector, search_term, button, run_analysis, selected_symbol,
              selected_name, result, computed_in, rendered, stale_seen>>

\* self.news_sources (lines 24-28)
news_sources_yahoo_first == <<"yfinance", "finnhub", "web">>
news_sources == <<"finnhub", "yfinance", "web">>

SourceIds == {"finnhub", "yfinance", "web"}

\* _get_web_news: the symbols that have a scraper (lines 113-118)
WebSymbols == {"AAPL", "MSFT", "AMZN"}

(***************************************************************************)
(* What the sources read: raw records of a response.  A record's headline  *)
(* is missing ("none"), a string ("str") or a value that is not a string   *)
(* ("bad": .strip() raises; for a scraped page, a link without href).      *)
(* Headlines are named in the order in which they first appear: the k-th   *)
(* new headline of an aggregation is the k-th letter.  The code treats     *)
(* headlines alike up to renaming, so no behaviour is lost.                *)
(***************************************************************************)
Letter(k) == <<Letters[k]>>
Capital(k) == <<UpperChars[k]>>
NumLetters == Len(Letters)

HeadlineTexts(u) ==
    LET ks == 1..(IF u + 1 > NumLetters THEN NumLetters ELSE u + 1)
        caps == {k \in ks : k <= UpperClasses}
    IN  {Letter(k) : k \in ks}
        \cup {Capital(k) : k \in caps}
        \cup {<<" ">> \o Letter(k) \o <<" ">> : k \in caps}
        \cup {<<>>, <<" ">>, NoTitle}

RawRecords(u) ==
    {[kind |-> "none", text |-> <<>>], [kind |-> "bad", text |-> <<>>]}
    \cup {[kind |-> "str", text |-> t] : t \in HeadlineTexts(u)}

\* the letter a headline introduces, 0 when it has none
LetterOf(t) ==
    LET n == Lower(Strip(t))
    IN  IF \E k \in 1..NumLetters : n = Letter(k)
        THEN CHOOSE k \in 1..NumLetters : n = Letter(k)
        ELSE 0

(***************************************************************************)
(* The source functions, one raw record at a time.                         *)
(***************************************************************************)
\* the 'source' field a source function writes (lines 75, 99, 143, 176, 209)
SourceName(s, sym) ==
    IF s = "finnhub" THEN "Finnhub"
    ELSE IF s = "yfinance" THEN "Yahoo Finance"
    ELSE IF sym = "AAPL" THEN "Apple Newsroom"
    ELSE IF sym = "MSFT" THEN "Microsoft News"
    ELSE "Amazon News"

SourceCap(s) == IF s = "web" THEN WebSourceCap ELSE ApiSourceCap

\* `if not item.get('headline'): continue` and its scraped counterparts
SkipsRecord(s, sym, r) ==
    IF s = "web" /\ sym = "AMZN"
    THEN r.kind = "none"
    ELSE IF s = "web"
    THEN r.kind = "none" \/ (r.kind = "str" /\ Strip(r.text) = <<>>)
    ELSE r.kind = "none" \/ (r.kind = "str" /\ r.text = <<>>)

\* the dict a source function appends for the i-th item it keeps; the url and
\* the summary are the record's own, told apart by source and position
MakeItem(s, sym, i, r) ==
    [title |-> Strip(r.text),
     url |-> <<"url", s, i>>,
     source |-> SourceName(s, sym),
     summary |-> IF s = "web" THEN <<"official", s, 0>> ELSE <<"summary", s, i>>]

\* the source function returns `lst` to get_company_news, which starts iterating
SourceReturns(lst, how) ==
    /\ results' = [results EXCEPT ![news_sources[src]] = lst]
    /\ status' = [status EXCEPT ![news_sources[src]] = how]
    /\ parsed' = <<>>
    /\ pos' = 1
    /\ pc' = "iter"

\* `except: continue` (lines 249-250): the for loop goes on with the next source
AfterRaiseAborts(k) == Len(news_sources) + 1
AfterRaise(k) == k + 1

\* `for source in self.news_sources: try: for item in source(symbol)` (lines 235-237)
CallSource ==
    /\ UNCHANGED <<reportVars, mainVars>>
    /\ pc = "call"
    /\ src <= Len(news_sources)
    /\ UNCHANGED <<symbol, news_items, seen_titles, ret, examined, budget, used>>
    /\ LET s == news_sources[src]
       IN  \/ \* the source has nothing to ask: FINNHUB_API_KEY is not set
              \* (line 53), the symbol is outside the allowlist (line 119)
              /\ s # "yfinance"
              /\ s = "web" => symbol \notin WebSymbols
              /\ SourceReturns(<<>>, "empty")
              /\ UNCHANGED src
           \/ \* the request fails inside the source's try: warning, return []
              /\ s = "web" => symbol \in WebSymbols
              /\ SourceReturns(<<>>, "failed")
              /\ UNCHANGED src
           \/ \* the call itself raises: `except: continue` (lines 249-250)
              /\ status' = [status EXCEPT ![s] = "raised"]
              /\ src' = AfterRaise(src)
              /\ UNCHANGED <<results, parsed, pos, pc>>
           \/ \* a response arrives and the source starts parsing it
              /\ s = "web" => symbol \in WebSymbols
              /\ pc' = "parse"
              /\ parsed' = <<>>
              /\ UNCHANGED <<src, results, status, pos>>

\* a record that brings a headline not seen before in this aggregation
IsFresh(r, u) == r.kind = "str" /\ LetterOf(r.text) > u

\* the headline letters that get_company_news has been handed so far
RECURSIVE LastLetter(_)
LastLetter(lst) ==
    IF lst = <<>> THEN 0
    ELSE LET k == LetterOf(lst[Len(lst)].title)
             m == LastLetter(SubSeq(lst, 1, Len(lst) - 1))
         IN  IF k > m THEN k ELSE m

Handed ==
    LastLetter(results["finnhub"] \o results["yfinance"] \o results["web"])

\* one turn of the source's `for item in ...` loop (lines 68-80, 92-104, 135-148)
\* (a record the loop skips leaves the source's state as it was; a record that
\* makes the loop raise ends the source with `return []`, lines 82-84, 106-108,
\* 150-152, and the headlines read so far are never handed over)
ParseRecord ==
    /\ UNCHANGED <<reportVars, mainVars>>
    /\ pc = "parse"
    /\ Len(parsed) < MaxResponse
    /\ \E r \in RawRecords(used) :
        LET s == news_sources[src]
        IN  /\ UNCHANGED <<symbol, src, news_items, seen_titles, ret, examined>>
            /\ IF SkipsRecord(s, symbol, r)
               THEN UNCHANGED <<parsed, pos, pc, results, status, budget, used>>
               ELSE IF r.kind = "bad"
               THEN /\ SourceReturns(<<>>, "failed")
                    /\ used' = Handed
                    /\ UNCHANGED budget
               ELSE /\ IsFresh(r, used) \/ budget > 0
                    /\ budget' = IF IsFresh(r, used) THEN budget ELSE budget - 1
                    /\ used' = IF IsFresh(r, used) THEN LetterOf(r.text) ELSE used
                    /\ LET lst == Append(parsed, MakeItem(s, symbol, Len(parsed) + 1, r))
                       IN  IF Len(lst) >= SourceCap(s)
                           THEN SourceReturns(lst, "returned")
                           ELSE /\ parsed' = lst
                                /\ UNCHANGED <<pos, pc, results, status>>

\* the response is exhausted: `return news_items` (lines 81, 105, 149)
ParseEnd ==
    /\ UNCHANGED <<reportVars, mainVars>>
    /\ pc = "parse"
    /\ SourceReturns(parsed, "returned")
    /\ UNCHANGED <<symbol, src, news_items, seen_titles, ret, examined, budget, used>>

(***************************************************************************)
(* get_company_news (lines 230-252).                                       *)
(***************************************************************************)
\* the condition of lines 240-242
AcceptsPlaceholder(title, seen) ==
    /\ title # <<>>
    /\ Lower(title) \notin seen
AcceptsCaseSensitive(title, seen) ==
    /\ title # <<>>
    /\ title \notin seen
    /\ title # NoTitle
Accepts(title, seen) ==
    /\ title # <<>>
    /\ Lower(title) \notin seen
    /\ title # NoTitle

\* `title = item.get('title', '').strip()` (line 239)
TitleOf(item) == Strip(item.title)

\* news_items after the inner loop's body has seen `item` (lines 239-245)
AccumulateLastWins(items, seen, item) ==
    IF Accepts(TitleOf(item), seen) THEN Append(items, item)
    ELSE [k \in DOMAIN items |->
            IF Lower(TitleOf(items[k])) = Lower(TitleOf(item)) THEN item ELSE items[k]]
Accumulate(items, seen, item) ==
    IF Accepts(TitleOf(item), seen) THEN Append(items, item) ELSE items

\* seen_titles after the inner loop's body has seen `item` (lines 239-244)
Remember(seen, item) ==
    IF Accepts(TitleOf(item), seen) THEN seen \cup {Lower(TitleOf(item))} ELSE seen

\* `if len(news_items) >= 5` (line 247)
FullNever(items) == FALSE
Full(items) == Len(items) >= MaxNews

\* one turn of `for item in source(symbol)` (lines 237-248), or its end
Examine ==
    /\ UNCHANGED <<reportVars, mainVars>>
    /\ pc = "iter"
    /\ UNCHANGED <<symbol, parsed, results, status, budget, used>>
    /\ LET s == news_sources[src]
       IN  IF pos > Len(results[s])
           THEN /\ src' = src + 1
                /\ pc' = "call"
                /\ UNCHANGED <<pos, news_items, seen_titles, ret, examined>>
           ELSE LET item == results[s][pos]
                IN  /\ examined' = [examined EXCEPT ![s] = pos]
                    /\ UNCHANGED src
                    /\ news_items' = Accumulate(news_items, seen_titles, item)
                    /\ seen_titles' = Remember(seen_titles, item)
                    /\ IF Accepts(TitleOf(item), seen_titles) /\ Full(news_items')
                       THEN /\ ret' = news_items'
                            /\ pc' = "done"
                            /\ UNCHANGED pos
                       ELSE /\ pos' = pos + 1
                            /\ UNCHANGED <<ret, pc>>

\* `return news_items[:5]` (line 252)
ReturnNews ==
    /\ UNCHANGED <<reportVars, mainVars>>
    /\ pc = "call"
    /\ src > Len(news_sources)
    /\ ret' = Take(news_items, MaxNews)
    /\ pc' = "done"
    /\ UNCHANGED <<symbol, src, parsed, pos, news_items, seen_titles,
                   results, status, examined, budget, used>>

(***************************************************************************)
(* get_company_news as a function of what its sources hand it, for the     *)
(* callers that only use its result.  An outcome is the list a source      *)
(* returned, or a raise.                                                   *)
(***************************************************************************)
\* the inner for loop over one source's list (lines 237-248)
RECURSIVE MergeList(_, _, _)
MergeList(items, seen, lst) ==
    IF lst = <<>> THEN [items |-> items, seen |-> seen, full |-> FALSE]
    ELSE LET item == Head(lst)
             items2 == Accumulate(items, seen, item)
         IN  IF Accepts(TitleOf(item), seen) /\ Full(items2)
             THEN [items |-> items2, seen |-> Remember(seen, item), full |-> TRUE]
             ELSE MergeList(items2, Remember(seen, item), Tail(lst))

\* the outer for loop, from source k on (lines 235-252)
RECURSIVE MergeSources(_, _, _, _)
MergeSources(items, seen, outs, k) ==
    IF k > Len(news_sources) THEN Take(items, MaxNews)
    ELSE LET o == outs[news_sources[k]]
         IN  IF o.raised THEN MergeSources(items, seen, outs, AfterRaise(k))
             ELSE LET m == MergeList(items, seen, o.items)
                  IN  IF m.full THEN m.items
                      ELSE MergeSources(m.items, m.seen, outs, k + 1)

GetCompanyNews(outs) == MergeSources(<<>>, {}, outs, 1)

\* what the sources hand get_company_news when the report is generated
ListOf(s, sym, titles) ==
    [i \in DOMAIN titles |-> MakeItem(s, sym, i, [kind |-> "str", text |-> titles[i]])]

ReportOutcomes(sym) ==
    [finnhub : {[raised |-> TRUE, items |-> <<>>],
                [raised |-> FALSE,
                 items |-> ListOf("finnhub", sym, <<Letter(1), Letter(2)>>)]},
     yfinance : {[raised |-> FALSE, items |-> <<>>],
                 [raised |-> FALSE,
                  items |-> ListOf("yfinance", sym,
                                   <<Capital(1), Letter(3), Letter(4)>>)]},
     web : {[raised |-> FALSE, items |-> <<>>]}]

(***************************************************************************)
(* Number formatting of the context's lines.                               *)
(***************************************************************************)
Digits == <<"0", "1", "2", "3", "4", "5", "6", "7", "8", "9">>

\* str(n) for a natural number
RECURSIVE ToDigits(_)
ToDigits(n) ==
    IF n < 10 THEN <<Digits[n + 1]>>
    ELSE ToDigits(n \div 10) \o <<Digits[(n % 10) + 1]>>

\* the last k digits of n, with leading zeros
RECURSIVE Padded(_, _)
Padded(n, k) ==
    IF k = 0 THEN <<>> ELSE Padded(n \div 10, k - 1) \o <<Digits[(n % 10) + 1]>>

\* format(n, ',') for a natural number (line 296)
RECURSIVE Commas(_)
Commas(n) ==
    IF n < 1000 THEN ToDigits(n)
    ELSE Commas(n \div 1000) \o <<",">> \o Padded(n % 1000, 3)

\* a float: not-a-number, or the quotient num / den
NaN == [nan |-> TRUE, num |-> 0, den |-> 1]
Quotient(a, b) == [nan |-> FALSE, num |-> a, den |-> b]

\* format(x, '.2f') (lines 326-328), rounding the quotient to the nearest cent
Fixed2(x) ==
    IF x.nan THEN <<"n", "a", "n">>
    ELSE LET c == (x.num * 200 + x.den) \div (2 * x.den)
         IN  ToDigits(c \div 100) \o <<".">> \o Padded(c % 100, 2)

\* x > y on floats: false when either is not a number (line 329)
GreaterOrEqual(x, y) == ~x.nan /\ ~y.nan /\ x.num * y.den >= y.num * x.den
Greater(x, y) == ~x.nan /\ ~y.nan /\ x.num * y.den > y.num * x.den

(***************************************************************************)
(* _gather_company_context (lines 285-333).                                *)
(***************************************************************************)
BasicFields == <<"sector", "industry", "marketCap", "fullTimeEmployees">>
MetricFields == <<"trailingPE", "profitMargins", "revenueGrowth", "debtToEquity">>
InfoFields == {BasicFields[i] : i \in DOMAIN BasicFields}
              \cup {MetricFields[i] : i \in DOMAIN MetricFields}

\* the label the context gives a field (lines 294-297, 304-307)
LabelOf(f) ==
    CASE f = "sector" -> "- Sector: "
      [] f = "industry" -> "- Industry: "
      [] f = "marketCap" -> "- Market Cap: $"
      [] f = "fullTimeEmployees" -> "- Employees: "
      [] f = "trailingPE" -> "- P/E Ratio: "
      [] f = "profitMargins" -> "- Profit Margin: "
      [] f = "revenueGrowth" -> "- Revenue Growth: "
      [] f = "debtToEquity" -> "- Debt/Equity: "

\* the text of a field that the info dict holds
ValueText(f) ==
    CASE f = "sector" -> <<"Technology">>
      [] f = "industry" -> <<"Consumer Electronics">>
      [] f = "marketCap" -> Commas(2500000)
      [] f = "fullTimeEmployees" -> ToDigits(164000)
      [] f = "trailingPE" -> <<"28.5">>
      [] f = "profitMargins" -> <<"0.25">>
      [] f = "revenueGrowth" -> <<"0.08">>
      [] f = "debtToEquity" -> <<"150.1">>

\* the info dicts: every field is there or not
InfoDicts == [InfoFields -> {"absent", "value"}]

NoInfo == [f \in InfoFields |-> "absent"]

\* f"{info.get(f, 'N/A')}"
GetOrNA(d, f) ==
    IF d[f] = "absent" THEN <<"N/A">> ELSE ValueText(f)

Line(label, value) == [label |-> label, value |-> value]

Heading(text) == Line(text, <<>>)

\* `context = f"Company: {company_name} ({symbol})\n\n"` (line 287)
HeaderLine(sym) == Line("Company: ", <<"name of ", sym, " (", sym, ")">>)

\* f"{info.get('marketCap', 'N/A'):,}" raises on the string 'N/A' (line 296):
\* ValueError, Cannot specify ',' with 's'
CommaFormatRaises(d) == d["marketCap"] = "absent"

\* the lines section 1 has appended when it ends or raises (lines 293-297)
BasicInfoLines(d) ==
    <<Heading("## Basic Information"),
      Line(LabelOf("sector"), GetOrNA(d, "sector")),
      Line(LabelOf("industry"), GetOrNA(d, "industry"))>>
    \o (IF CommaFormatRaises(d) THEN <<>>
        ELSE <<Line(LabelOf("marketCap"), GetOrNA(d, "marketCap")),
               Line(LabelOf("fullTimeEmployees"), GetOrNA(d, "fullTimeEmployees"))>>)

\* section 1: the info lookup and the basic information (lines 290-299)
GatherBasicInfo ==
    /\ rpc = "info"
    /\ UNCHANGED <<newsVars, mainVars>>
    /\ UNCHANGED <<client, news, hist_state, hist, llm_calls, llm_result, report,
                   escaped>>
    /\ rpc' = "metrics"
    /\ \/ \* yf.Ticker(symbol).info raises: `except: pass`, info stays unbound
          /\ info_state' = "raised"
          /\ UNCHANGED <<info, context>>
       \/ \E d \in InfoDicts :
          /\ info_state' = "bound"
          /\ info' = d
          /\ context' = context \o BasicInfoLines(d)

\* section 2: the financial metrics (lines 302-309); the name `info` is the
\* one section 1 bound, or is unbound (NameError, `except: pass`)
MetricsLines(bound, d) ==
    <<Heading("## Financial Metrics")>>
    \o (IF ~bound THEN <<>>
        ELSE [i \in DOMAIN MetricFields |->
                Line(LabelOf(MetricFields[i]), GetOrNA(d, MetricFields[i]))])

GatherMetrics ==
    /\ rpc = "metrics"
    /\ UNCHANGED <<newsVars, mainVars>>
    /\ UNCHANGED <<client, info_state, info, news, hist_state, hist, llm_calls,
                   llm_result, report, escaped>>
    /\ rpc' = "news"
    /\ context' = context \o MetricsLines(info_state = "bound", info)

\* section 3: the news highlights (lines 312-317)
NewsLines(n) ==
    IF n = <<>> THEN <<>>
    ELSE <<Heading("## Recent News Highlights")>>
         \o [i \in 1..Len(Take(n, MaxHighlights)) |->
                Line("- ", n[i].title \o <<" (", n[i].source, ")">>)]

GatherNews ==
    /\ rpc = "news"
    /\ UNCHANGED <<newsVars, mainVars>>
    /\ UNCHANGED <<client, info_state, info, hist_state, hist, llm_calls,
                   llm_result, report, escaped>>
    /\ rpc' = "tech"
    /\ \E outs \in ReportOutcomes(symbol) :
          /\ news' = GetCompanyNews(outs)
          /\ context' = context \o NewsLines(news')

\* hist['Close'] of a history: its length and its i-th close
NumCloses(h) == h.n1 + h.n2
Close(h, i) == IF i <= h.n1 THEN h.p1 ELSE h.p2

\* the closes lo..hi added up
RECURSIVE SumRange(_, _, _)
SumRange(h, lo, hi) ==
    IF lo > hi THEN 0
    ELSE IF lo = hi THEN Close(h, lo)
    ELSE LET mid == (lo + hi) \div 2
         IN  SumRange(h, lo, mid) + SumRange(h, mid + 1, hi)

\* hist['Close'].rolling(w).mean().iloc[-1] (lines 323-324)
RollingMeanLast(h, w) ==
    IF NumCloses(h) < w THEN NaN
    ELSE Quotient(SumRange(h, NumCloses(h) - w + 1, NumCloses(h)), w)

\* 'Bullish' if sma50 > sma200 else 'Bearish' (line 329)
TrendLabel(sma50, sma200) == IF Greater(sma50, sma200) THEN "Bullish" ELSE "Bearish"

\* the lines of section 4 (lines 325-329)
TechnicalLines(h) ==
    LET sma50 == RollingMeanLast(h, ShortWindow)
        sma200 == RollingMeanLast(h, LongWindow)
    IN  <<Heading("## Technical Indicators"),
          Line("- Current Price: $", Fixed2(Quotient(Close(h, NumCloses(h)), 1))),
          Line("- 50-day MA: $", Fixed2(sma50)),
          Line("- 200-day MA: $", Fixed2(sma200)),
          Line("- Trend: ", <<TrendLabel(sma50, sma200)>>)>>

\* the histories: n1 days at one price, then n2 days at another
Histories ==
    {h \in [n1 : {0, LongWindow - ShortWindow, LongWindow - ShortWindow + 1},
            p1 : 1..MaxPrice,
            n2 : {0, 1, ShortWindow - 1, ShortWindow},
            p2 : 1..MaxPrice] :
        /\ h.n1 = 0 => h.p1 = h.p2
        /\ h.n2 = 0 => h.n1 = 0}

NoHistory == [n1 |-> 0, p1 |-> 1, n2 |-> 0, p2 |-> 1]

\* section 4: the technical indicators (lines 320-331)
GatherTechnical ==
    /\ rpc = "tech"
    /\ UNCHANGED <<newsVars, mainVars>>
    /\ UNCHANGED <<client, info_state, info, news, llm_calls, llm_result, report,
                   escaped>>
    /\ rpc' = "gathered"
    /\ \/ \* history() raises: `except: pass`
          /\ hist_state' = "raised"
          /\ UNCHANGED <<hist, context>>
       \/ \E h \in Histories :
          /\ hist' = h
          /\ IF NumCloses(h) = 0
             THEN /\ hist_state' = "empty"
                  /\ UNCHANGED context
             ELSE /\ hist_state' = "ok"
                  /\ context' = context \o TechnicalLines(h)

(***************************************************************************)
(* generate_report (lines 254-283).                                        *)
(***************************************************************************)
NoDataMessage == <<"Could not gather enough data to generate report">>
NoKeyMessage == <<"OpenAI API key required for report generation">>
ErrorMessage(e) == <<"Report generation error: ", e>>

\* `except Exception as e: return f"... {str(e)}"` (lines 282-283)
OnReportErrorReraises(e) == [report |-> <<>>, escaped |-> TRUE]
OnReportError(e) == [report |-> ErrorMessage(e), escaped |-> FALSE]

\* lines 260-265: the two early returns before the language-model call
ReturnWithoutCall ==
    /\ rpc = "gathered"
    /\ context = <<>> \/ ~client
    /\ UNCHANGED <<newsVars, mainVars>>
    /\ UNCHANGED <<client, info_state, info, context, news, hist_state, hist,
                   llm_calls, llm_result, escaped>>
    /\ report' = IF context = <<>> THEN NoDataMessage ELSE NoKeyMessage
    /\ rpc' = "returned"

\* lines 267-283: the one call of the language model and what comes of it
CallModel ==
    /\ rpc = "gathered"
    /\ context # <<>>
    /\ client
    /\ UNCHANGED <<newsVars, mainVars>>
    /\ UNCHANGED <<client, info_state, info, context, news, hist_state, hist>>
    /\ llm_calls' = llm_calls + 1
    /\ rpc' = "returned"
    /\ \/ \* the call returns a completion
          /\ report' = <<"completion for ", symbol>>
          /\ llm_result' = "ok"
          /\ UNCHANGED escaped
       \/ \* the call raises, or the response has no choices (IndexError)
          \E e \in {"APIError", "IndexError"} :
          /\ llm_result' = "failed"
          /\ report' = OnReportError(e).report
          /\ escaped' = OnReportError(e).escaped

(***************************************************************************)
(* main (lines 392-503): one page run of the script after the other, over  *)
(* the session state that outlives them.                                   *)
(***************************************************************************)
\* us_stocks.json: sector -> the companies of the sector
StockData ==
    [Tech |-> {[name |-> <<"A", "b">>, symbol |-> "AAPL"],
               [name |-> <<"A", "c">>, symbol |-> "AMZN"]},
     Auto |-> {[name |-> <<"B", "a">>, symbol |-> "TSLA"]}]

\* what the user may have typed into the search box
SearchTerms == {<<>>, <<"a">>, <<"B">>, <<"d">>}

\* t in s, on strings
Contains(s, t) ==
    \E i \in 0..(Len(s) - Len(t)) : SubSeq(s, i + 1, i + Len(t)) = t

\* filtered_companies (lines 425-428)
FilteredCompanies(sec, term) ==
    {c \in StockData[sec] : Contains(Lower(c.name), Lower(term))}

NoResult == [name |-> <<>>, symbol |-> "none"]
NoRender == [name |-> <<>>, symbol |-> "none"]

\* a result of another company than the selected one is stored
Stale(res, sym) == res # NoResult /\ res.symbol # sym

\* the script starts: the first page load, or a widget interaction of the
\* user, which ends the run in progress and runs main again (line 392)
PageRun ==
    /\ UNCHANGED <<newsVars, reportVars>>
    /\ run < MaxRuns
    /\ run' = run + 1
    /\ mpc' = "sidebar"
    /\ rendered' = NoRender
    /\ \E sec \in DOMAIN StockData, term \in SearchTerms, pressed \in BOOLEAN :
          /\ pressed => run + 1 < MaxRuns
          /\ sector' = sec
          /\ search_term' = term
          /\ button' = pressed
    /\ UNCHANGED <<run_analysis, selected_symbol, selected_name, result,
                   computed_in, stale_seen>>

\* lines 408-442: the stock list, the sidebar and the Analyze button
Sidebar ==
    /\ UNCHANGED <<newsVars, reportVars>>
    /\ mpc = "sidebar"
    /\ UNCHANGED <<sector, search_term, result, computed_in, stale_seen>>
    /\ \E loaded \in BOOLEAN :
        IF ~loaded \/ FilteredCompanies(sector, search_term) = {}
        THEN \* `return` (lines 411, 432)
             /\ mpc' = "idle"
             /\ UNCHANGED <<run, button, run_analysis, selected_symbol,
                            selected_name, rendered>>
        ELSE \E selected_company \in FilteredCompanies(sector, search_term) :
             IF button
             THEN \* lines 438-442: store the selection, st.rerun()
                  /\ run_analysis' = TRUE
                  /\ selected_symbol' = selected_company.symbol
                  /\ selected_name' = selected_company.name
                  /\ run' = run + 1
                  /\ button' = FALSE
                  /\ rendered' = NoRender
                  /\ mpc' = "sidebar"
             ELSE /\ mpc' = "analysis"
                  /\ UNCHANGED <<run, button, run_analysis, selected_symbol,
                                 selected_name, rendered>>

\* `st.error("Failed to fetch stock data"); return` (lines 450-452)
AfterFetchFailureRenders == "render"
AfterFetchFailure == "idle"

\* lines 444-468: the analysis of the selected company
RunAnalysis ==
    /\ UNCHANGED <<newsVars, reportVars>>
    /\ mpc = "analysis"
    /\ UNCHANGED <<run, sector, search_term, button, run_analysis, selected_symbol,
                   selected_name, rendered>>
    /\ IF ~run_analysis
       THEN /\ mpc' = "render"
            /\ UNCHANGED <<result, computed_in, stale_seen>>
       ELSE \E fetched \in BOOLEAN :
            IF ~fetched
            THEN /\ mpc' = AfterFetchFailure
                 /\ stale_seen' = (stale_seen \/ Stale(result, selected_symbol))
                 /\ UNCHANGED <<result, computed_in>>
            ELSE /\ result' = [name |-> selected_name, symbol |-> selected_symbol]
                 /\ computed_in' = run
                 /\ mpc' = "render"
                 /\ UNCHANGED stale_seen

\* lines 470-503: the header and the tabs of the stored result
RenderResult ==
    /\ UNCHANGED <<newsVars, reportVars>>
    /\ mpc = "render"
    /\ mpc' = "idle"
    /\ rendered' = IF result = NoResult THEN NoRender
                   ELSE [name |-> result.name, symbol |-> result.symbol]
    /\ UNCHANGED <<run, sector, search_term, button, run_analysis, selected_symbol,
                   selected_name, result, computed_in, stale_seen>>

(***************************************************************************)
(* Specifications.                                                         *)
(***************************************************************************)
NewsInit(b, syms) ==
    /\ symbol \in syms
    /\ pc = "call"
    /\ src = 1
    /\ parsed = <<>>
    /\ pos = 1
    /\ news_items = <<>>
    /\ seen_titles = {}
    /\ ret = <<>>
    /\ results = [s \in SourceIds |-> <<>>]
    /\ status = [s \in SourceIds |-> "unqueried"]
    /\ examined = [s \in SourceIds |-> 0]
    /\ budget = b
    /\ used = 0

\* generate_report at its first line; `idle`: no report is being generated
ReportInit(at) ==
    /\ rpc = at
    /\ client \in BOOLEAN
    /\ info_state = "unread"
    /\ info = NoInfo
    /\ context = IF at = "idle" THEN <<>> ELSE <<HeaderLine(symbol)>>
    /\ news = <<>>
    /\ hist_state = "unread"
    /\ hist = NoHistory
    /\ llm_calls = 0
    /\ llm_result = "none"
    /\ report = <<>>
    /\ escaped = FALSE

\* a session in which main has not run yet
MainInit ==
    /\ mpc = "idle"
    /\ run = 0
    /\ sector = "Tech"
    /\ search_term = <<>>
    /\ button = FALSE
    /\ run_analysis = FALSE
    /\ selected_symbol = "none"
    /\ selected_name = <<>>
    /\ result = NoResult
    /\ computed_in = 0
    /\ rendered = NoRender
    /\ stale_seen = FALSE

vars == <<newsVars, reportVars, mainVars>>

\* get_company_news alone: the Amazon scraper, which keeps every title it
\* finds, and a symbol outside the allowlist
Init ==
    /\ NewsInit(MaxNoise, {"AMZN", "TSLA"})
    /\ ReportInit("idle")
    /\ client = TRUE
    /\ MainInit

Next == CallSource \/ ParseRecord \/ ParseEnd \/ Examine \/ ReturnNews

Spec == Init /\ [][Next]_vars

\* generate_report, with _gather_company_context
InitReport ==
    /\ NewsInit(0, {"AAPL"})
    /\ ReportInit("info")
    /\ MainInit

NextReport ==
    \/ GatherBasicInfo
    \/ GatherMetrics
    \/ GatherNews
    \/ GatherTechnical
    \/ ReturnWithoutCall
    \/ CallModel

SpecReport == InitReport /\ [][NextReport]_vars

\* main over the page runs of one session
InitMain ==
    /\ NewsInit(0, {"AAPL"})
    /\ ReportInit("idle")
    /\ client = TRUE
    /\ MainInit

NextMain == PageRun \/ Sidebar \/ RunAnalysis \/ RenderResult

SpecMain == InitMain /\ [][NextMain]_vars

(***************************************************************************)
(* Properties of get_company_news.                                         *)
(***************************************************************************)
\* a title as the aggregation compares it: trimmed and case-folded
Fold(t) == Lower(Strip(t))

\* a title that is neither empty after trimming nor the placeholder
ValidTitle(t) == Strip(t) # <<>> /\ Strip(t) # NoTitle

\* the priority order of the sources: Finnhub, then yfinance, then the scrape
PriorityOrder == <<"finnhub", "yfinance", "web">>

\* the items of source s that the inner loop has looked at
Seen(s) == 1..examined[s]

\* C1: get_company_news returns at most 5 items, and every returned item has a
\* title that is non-empty after trimming and is not 'No title available'.
C1_AtMostFiveValidTitles ==
    /\ Len(news_items) <= MaxNews
    /\ pc = "done" =>
        /\ Len(ret) <= MaxNews
        /\ \A k \in DOMAIN ret :
            /\ Strip(ret[k].title) # <<>>
            /\ ret[k].title # NoTitle
            /\ Strip(ret[k].title) # NoTitle

\* five items were returned although a source delivered an empty or a
\* placeholder title that the loop looked at
C1_Witness ==
    /\ pc = "done"
    /\ Len(ret) = MaxNews
    /\ \E s \in SourceIds : \E i \in Seen(s) : ~ValidTitle(results[s][i].title)

\* C2: no two accepted (or returned) items have titles equal after trimming
\* and case-folding, and at every step seen_titles is the set of the
\* lowercased titles of the items accepted so far.
C2_NoDuplicateTitles ==
    LET folded == [k \in DOMAIN news_items |-> Fold(news_items[k].title)]
    IN  /\ \A i, j \in DOMAIN folded : i < j => folded[i] # folded[j]
        /\ seen_titles = {folded[k] : k \in DOMAIN folded}
        /\ pc = "done" =>
            \A i, j \in DOMAIN ret : i < j => Fold(ret[i].title) # Fold(ret[j].title)

\* the loop looked at a title that differs from a returned one only in case
C2_Witness ==
    /\ pc = "done"
    /\ Len(ret) >= 2
    /\ \E s \in SourceIds : \E i \in Seen(s) : \E k \in DOMAIN ret :
        /\ results[s][i].title # ret[k].title
        /\ Fold(results[s][i].title) = Fold(ret[k].title)

\* the item that source number a, in priority order, returned in place i
Returned(a, i) == results[PriorityOrder[a]][i]

\* (a, i) is the first place, in priority order, where the title of
\* Returned(a, i) occurs
FirstOccurrence(a, i) ==
    LET t == Fold(Returned(a, i).title)
    IN  /\ \A i2 \in 1..(i - 1) : Fold(Returned(a, i2).title) # t
        /\ \A a2 \in 1..(a - 1) : \A i2 \in DOMAIN results[PriorityOrder[a2]] :
              Fold(Returned(a2, i2).title) # t

\* source A (the first to return the title) and a later source B returned the
\* same title, up to case
SameTitleFromTwo(a, i, b, j) ==
    /\ a < b
    /\ Fold(Returned(a, i).title) = Fold(Returned(b, j).title)
    /\ ValidTitle(Returned(a, i).title)
    /\ FirstOccurrence(a, i)

\* C3: when an earlier source A and a later source B both returned an item
\* with the same title (case-insensitively), the item of that title in the
\* output carries A's url, source and summary, never B's.
C3_EarlierSourceWins ==
    pc = "done" =>
        \A a \in DOMAIN PriorityOrder : \A b \in (a + 1)..Len(PriorityOrder) :
            \A i \in DOMAIN results[PriorityOrder[a]] :
                \A j \in DOMAIN results[PriorityOrder[b]] :
                    SameTitleFromTwo(a, i, b, j) =>
                        \A k \in DOMAIN ret :
                            Fold(ret[k].title) = Fold(Returned(a, i).title) =>
                                /\ ret[k].url = Returned(a, i).url
                                /\ ret[k].source = Returned(a, i).source
                                /\ ret[k].summary = Returned(a, i).summary
                                /\ ret[k].url # Returned(b, j).url

\* the later source's duplicate was looked at, and the title is in the output
C3_Witness ==
    /\ pc = "done"
    /\ \E a \in DOMAIN PriorityOrder : \E b \in (a + 1)..Len(PriorityOrder) :
        \E i \in DOMAIN results[PriorityOrder[a]] :
            \E j \in Seen(PriorityOrder[b]) :
                /\ SameTitleFromTwo(a, i, b, j)
                /\ Returned(a, i).title # Returned(b, j).title
                /\ \E k \in DOMAIN ret :
                       Fold(ret[k].title) = Fold(Returned(a, i).title)

\* the place of source s in the loop
IndexOf(s) == CHOOSE k \in DOMAIN news_sources : news_sources[k] = s

Failed(s) == status[s] \in {"failed", "raised"}

\* a failed source has produced nothing, and the aggregation went on to every
\* later source unless five items were accepted
C4_FailedSourceState ==
    /\ \A s \in SourceIds :
        Failed(s) =>
            /\ results[s] = <<>>
            /\ \A k \in DOMAIN news_items : news_items[k].url[2] # s
            /\ \A k \in DOMAIN ret : ret[k].url[2] # s
            /\ pc = "done" =>
                \/ Len(ret) >= MaxNews
                \/ \A s2 \in SourceIds :
                      IndexOf(s2) > IndexOf(s) => status[s2] # "unqueried"

\* the step in which a source fails keeps what was accepted and does not return
C4_FailedSourceStep ==
    \A s \in SourceIds :
        (~Failed(s) /\ Failed(s)') =>
            /\ news_items' = news_items
            /\ seen_titles' = seen_titles
            /\ pc' # "done"

\* C4: a source that fails yields zero items, items accepted from earlier
\* sources are kept, and every later source is still queried unless five
\* items are already accepted.
C4_FailedSourceIsSkipped == [](C4_FailedSourceState) /\ [][C4_FailedSourceStep]_vars

\* the second source failed between two sources that both contributed
C4_Witness ==
    /\ pc = "done"
    /\ Failed(news_sources[2])
    /\ \E k \in DOMAIN ret : ret[k].url[2] = news_sources[1]
    /\ \E k \in DOMAIN ret : ret[k].url[2] = news_sources[3]

\* the source results in priority order, one after the other
Concatenated ==
    results[PriorityOrder[1]] \o results[PriorityOrder[2]] \o results[PriorityOrder[3]]

\* what remains of `all` without the items of empty or placeholder title and
\* without the items whose case-folded title occurred earlier
RECURSIVE Deduplicated(_, _)
Deduplicated(all, before) ==
    IF all = <<>> THEN <<>>
    ELSE LET it == Head(all)
         IN  IF ValidTitle(it.title) /\ Fold(it.title) \notin before
             THEN <<it>> \o Deduplicated(Tail(all), before \cup {Fold(it.title)})
             ELSE Deduplicated(Tail(all), before)

\* source 1 returned 2 valid items, source 2 a duplicate that differs in case
\* and 1 new item, source 3 is not configured
Scenario ==
    LET f == results["finnhub"]
        y == results["yfinance"]
    IN  /\ status["finnhub"] = "returned" /\ Len(f) = 2
        /\ ValidTitle(f[1].title) /\ ValidTitle(f[2].title)
        /\ Fold(f[1].title) # Fold(f[2].title)
        /\ status["yfinance"] = "returned" /\ Len(y) = 2
        /\ y[1].title # f[1].title /\ Fold(y[1].title) = Fold(f[1].title)
        /\ ValidTitle(y[2].title)
        /\ Fold(y[2].title) \notin {Fold(f[1].title), Fold(f[2].title)}
        /\ status["web"] = "empty"

\* C5: the output is the first five elements of the concatenation of the
\* source results in priority order (Finnhub, yfinance, web scrape) without
\* the items of empty or placeholder title and without the items whose
\* case-folded title occurred earlier; in the scenario above it is the two
\* items of source 1 followed by the new item of source 2.
C5_OutputIsOrderedMerge ==
    pc = "done" =>
        /\ ret = Take(Deduplicated(Concatenated, {}), MaxNews)
        /\ Scenario =>
              ret = <<results["finnhub"][1], results["finnhub"][2],
                      results["yfinance"][2]>>

C5_Witness == pc = "done" /\ Scenario /\ Len(ret) = 3

\* C10: once the fifth item is accepted get_company_news has returned it with
\* the four before it: no further item of the current source has been looked
\* at and no later source has been queried.
C10_StopsAtFifth ==
    Len(news_items) >= MaxNews =>
        /\ pc = "done"
        /\ ret = news_items
        /\ Len(ret) = MaxNews
        /\ LET s == news_sources[src]
           IN  /\ examined[s] = pos
               /\ results[s][pos] = ret[MaxNews]
               /\ \A s2 \in SourceIds :
                     IndexOf(s2) > src => status[s2] = "unqueried" /\ examined[s2] = 0

\* the fifth item was accepted with an item of the current source still to
\* come and a later source not yet queried
C10_Witness ==
    /\ pc = "done"
    /\ Len(ret) = MaxNews
    /\ pos < Len(results[news_sources[src]])
    /\ src < Len(news_sources)

(***************************************************************************)
(* Properties of _gather_company_context and generate_report.              *)
(***************************************************************************)
\* the context has a line of this label
HasLine(label) == \E i \in DOMAIN context : context[i].label = label

\* the labels of the sections that are built from the info lookup
InfoLabels ==
    {"## Basic Information", "## Financial Metrics"}
    \cup {LabelOf(f) : f \in InfoFields}

\* the labels of the section that is built from the price history
TechnicalLabels ==
    {"## Technical Indicators", "- Current Price: $", "- 50-day MA: $",
     "- 200-day MA: $", "- Trend: "}

\* _gather_company_context has returned
Gathered == rpc \in {"gathered", "returned"}

\* C6: _gather_company_context never raises; a sub-step that fails (info
\* lookup, news aggregation, price history) leaves its whole section out of
\* the text, and every later section is still assembled.
C6_FailedStepOmitsItsSection ==
    Gathered =>
        /\ ~escaped
        /\ info_state = "raised" => \A l \in InfoLabels : ~HasLine(l)
        /\ hist_state = "raised" => \A l \in TechnicalLabels : ~HasLine(l)
        /\ news # <<>> => HasLine("## Recent News Highlights")
        /\ hist_state = "ok" => \A l \in TechnicalLabels : HasLine(l)

\* C7: whenever the info lookup succeeds the text is non-empty and has one
\* line for each basic-info field and each financial metric, and the line of
\* a field that the info record lacks shows "N/A".
C7_EveryFieldHasItsLine ==
    (Gathered /\ info_state = "bound") =>
        /\ context # <<>>
        /\ \A f \in InfoFields :
            \E i \in DOMAIN context :
                /\ context[i].label = LabelOf(f)
                /\ info[f] = "absent" => context[i].value = <<"N/A">>

\* the trend the context shows
ShownTrend == context[CHOOSE i \in DOMAIN context : context[i].label = "- Trend: "].value

\* the sum of the last w closes of a history of at least w closes: those of
\* its second stretch, then those of its first
LastSum(h, w) ==
    LET k == IF h.n2 < w THEN h.n2 ELSE w
    IN  h.p2 * k + h.p1 * (w - k)

\* C8: for every non-empty close series the trend is "Bullish" exactly when
\* the 50-period average strictly exceeds the 200-period average, and
\* "Bearish" otherwise: with equal averages, and with fewer than 200 closes
\* whatever the prices are.
C8_TrendLabel ==
    (Gathered /\ hist_state = "ok") =>
        /\ HasLine("- Trend: ")
        /\ ShownTrend \in {<<"Bullish">>, <<"Bearish">>}
        /\ ShownTrend = <<"Bullish">> <=>
              /\ hist.n1 + hist.n2 >= LongWindow
              /\ LastSum(hist, ShortWindow) * LongWindow
                    > LastSum(hist, LongWindow) * ShortWindow
        /\ hist.n1 + hist.n2 < LongWindow => ShownTrend = <<"Bearish">>

\* a series of at least 200 closes whose last 50 average more: "Bullish"
C8_Witness ==
    /\ Gathered
    /\ hist_state = "ok"
    /\ hist.n1 + hist.n2 >= LongWindow
    /\ ShownTrend = <<"Bullish">>

\* C9: generate_report never raises and never retries: without the
\* credential, or when the language-model call fails, it returns a
\* placeholder message, and it calls the language model at most once, and
\* not at all without the credential.
C9_ReportNeverRaisesNorRetries ==
    /\ ~escaped
    /\ llm_calls <= 1
    /\ ~client => llm_calls = 0
    /\ rpc = "returned" =>
        /\ report # <<>>
        /\ ~client => report = NoKeyMessage
        /\ llm_result = "failed" =>
              \E e \in {"APIError", "IndexError"} : report = ErrorMessage(e)

\* the one language-model call failed and the placeholder was returned
C9_Witness ==
    /\ rpc = "returned"
    /\ client
    /\ llm_result = "failed"
    /\ llm_calls = 1

(***************************************************************************)
(* Properties of main.                                                     *)
(***************************************************************************)
\* C11: whenever a page run has rendered the result tabs, the rendered
\* result is the stored one, its symbol and name are
\* session_state.selected_symbol and selected_name, and it was stored in
\* that same run; a result computed for a previously selected company is
\* never rendered.
C11_RenderedResultIsCurrent ==
    rendered # NoRender =>
        /\ rendered.symbol = selected_symbol
        /\ rendered.name = selected_name
        /\ result = [name |-> selected_name, symbol |-> selected_symbol]
        /\ run_analysis
        /\ computed_in = run

\* a run rendered its result in a session where an earlier run had failed to
\* fetch the newly selected company and left the result of another one stored
C11_Witness ==
    /\ rendered # NoRender
    /\ stale_seen
    /\ mpc = "idle"

====
